---- MODULE Spec2Model ----
(***************************************************************************)
(* State-machine model of src/bot.py: a Telegram storefront bot.           *)
(*                                                                         *)
(* Python strings are modelled as sequences of one-character strings, so   *)
(* that str.split, str.lower, str.strip, str.startswith, int() and str()   *)
(* are computed the way the interpreter computes them.  Python lists and   *)
(* dicts that the code shares by reference (the cart list, the product     *)
(* dicts) live in two heaps, `lists' and `objs', and are named by their    *)
(* index there; index 0 is "no object".                                    *)
(***************************************************************************)
EXTENDS Integers, Sequences, FiniteSets, TLC

VARIABLES
    ADMIN_ID,     \* os.getenv("ADMIN_USER_ID"); <<>> when it is not set
    products,     \* the catalog dict: product id -> reference into objs
    objs,         \* heap of product dicts {"id","name","price"}
    lists,        \* heap of Python lists (carts): sequences of references into objs
    user_data,    \* context.user_data of every user
    orders_file,  \* contents of orders.json (a JSON array; <<>> when the file is absent)
    last,         \* the update being handled (the handler's input)
    out,          \* what the handler sent while handling `last'
    tasks,        \* the approve_payment coroutine of every user: where it is suspended
    save_calls,   \* history: the orders save_order was called with, in call order
    scenario,     \* history: how far the latest updates follow the order scenario
    audit         \* history, kept by the counted actions: the successful checkouts of
                  \* every user, and who pressed approve since their last one

vars == <<ADMIN_ID, products, objs, lists, user_data, orders_file, last, out, tasks,
          save_calls, scenario, audit>>

-----------------------------------------------------------------------------
(* Bounds of the model *)

\* users are 1..NumUsers
NumUsers == 2
\* add_to_cart is not offered once a cart holds MaxCart items
MaxCart == 2
\* approve_payment is not offered a save once save_order has run MaxLedger times
MaxLedger == 2
\* in the order workflow a cart holds at most MaxOrderItems items
MaxOrderItems == 1
\* orders.json holds at most MaxPrior orders when the bot starts
MaxPrior == 6
\* checkouts are counted up to MaxCheckouts, all users together
MaxCheckouts == 2

Users == 1..NumUsers

-----------------------------------------------------------------------------
(* Python string primitives *)

LowerCase == <<"a","b","c","d","e","f","g","h","i","j","k","l","m",
               "n","o","p","q","r","s","t","u","v","w","x","y","z">>
UpperCase == <<"A","B","C","D","E","F","G","H","I","J","K","L","M",
               "N","O","P","Q","R","S","T","U","V","W","X","Y","Z">>
DigitChars == <<"0","1","2","3","4","5","6","7","8","9">>
Whitespace == {" ", "\t", "\n"}

\* str.lower() of one character
lowerChar(c) ==
    IF \E i \in 1..26 : UpperCase[i] = c
    THEN LowerCase[CHOOSE i \in 1..26 : UpperCase[i] = c]
    ELSE c

\* str.lower()
lower(s) == [i \in 1..Len(s) |-> lowerChar(s[i])]

\* str.startswith(p)
startswith(s, p) == Len(s) >= Len(p) /\ SubSeq(s, 1, Len(p)) = p

\* str.split(sep) for a one-character separator
RECURSIVE split(_, _)
split(s, sep) ==
    IF \E i \in 1..Len(s) : s[i] = sep
    THEN LET i == CHOOSE k \in 1..Len(s) : s[k] = sep /\ \A j \in 1..(k-1) : s[j] # sep
         IN  <<SubSeq(s, 1, i-1)>> \o split(SubSeq(s, i+1, Len(s)), sep)
    ELSE <<s>>

\* str.strip()
RECURSIVE lstrip(_)
lstrip(s) == IF s # <<>> /\ s[1] \in Whitespace THEN lstrip(Tail(s)) ELSE s
RECURSIVE rstrip(_)
rstrip(s) == IF s # <<>> /\ s[Len(s)] \in Whitespace THEN rstrip(SubSeq(s, 1, Len(s)-1)) ELSE s
strip(s) == rstrip(lstrip(s))

isDigit(c) == \E i \in 1..10 : DigitChars[i] = c
digitVal(c) == (CHOOSE i \in 1..10 : DigitChars[i] = c) - 1

RECURSIVE digitsVal(_)
digitsVal(s) == IF s = <<>> THEN 0 ELSE 10 * digitsVal(SubSeq(s, 1, Len(s)-1)) + digitVal(s[Len(s)])

\* int(s): [ok |-> FALSE] stands for ValueError
int(s) ==
    LET t == strip(s)
        neg == t # <<>> /\ t[1] = "-"
        d == IF t # <<>> /\ t[1] \in {"-", "+"} THEN Tail(t) ELSE t
    IN  IF d # <<>> /\ \A i \in 1..Len(d) : isDigit(d[i])
        THEN [ok |-> TRUE, val |-> IF neg THEN 0 - digitsVal(d) ELSE digitsVal(d)]
        ELSE [ok |-> FALSE, val |-> 0]

\* str(n) for an integer n
RECURSIVE strNat(_)
strNat(n) == IF n < 10 THEN <<DigitChars[n+1]>> ELSE Append(strNat(n \div 10), DigitChars[(n % 10) + 1])
str(n) == IF n < 0 THEN <<"-">> \o strNat(0 - n) ELSE strNat(n)

-----------------------------------------------------------------------------
(* String literals of the source *)

\* callback_data values and prefixes tested by main_button_handler
D_menu == <<"m","e","n","u">>
D_cart == <<"c","a","r","t">>
D_back == <<"b","a","c","k">>
D_clear_cart == <<"c","l","e","a","r","_","c","a","r","t">>
D_checkout_order == <<"c","h","e","c","k","o","u","t","_","o","r","d","e","r">>
D_pay_tinkoff == <<"p","a","y","_","t","i","n","k","o","f","f">>
D_confirm_payment == <<"c","o","n","f","i","r","m","_","p","a","y","m","e","n","t">>
\* a callback_data value main_button_handler has no branch for
D_set_address == <<"s","e","t","_","a","d","d","r","e","s","s">>
P_add == <<"a","d","d","_">>
P_remove == <<"r","e","m","o","v","e","_">>
P_approve == <<"a","p","p","r","o","v","e","_">>

\* command names registered in main(), and the one /help advertises
C_start == <<"s","t","a","r","t">>
C_help == <<"h","e","l","p">>
C_admin == <<"a","d","m","i","n">>
C_orders == <<"o","r","d","e","r","s">>
C_list_products == <<"l","i","s","t","_","p","r","o","d","u","c","t","s">>
C_add_product == <<"a","d","d","_","p","r","o","d","u","c","t">>
C_remove_product == <<"r","e","m","o","v","e","_","p","r","o","d","u","c","t">>
C_checkout == <<"c","h","e","c","k","o","u","t">>

AWAITING_PAYMENT_CONFIRMATION == "awaiting_payment_confirmation"

\* Python None, for user_data['state']
None == "None"

\* the initial catalog; the display names stand for the emoji-prefixed Russian ones
InitialProducts ==
    << [id |-> <<"a","p","p","l","e">>,  name |-> <<"Y","a","b","l","o","k","o">>,  price |-> 50],
       [id |-> <<"b","a","n","a","n","a">>, name |-> <<"B","a","n","a","n">>,    price |-> 70],
       [id |-> <<"o","r","a","n","g","e">>, name |-> <<"A","p","e","l","s","i","n">>,  price |-> 80],
       [id |-> <<"b","r","e","a","d">>,  name |-> <<"H","l","e","b">>,     price |-> 40] >>

\* update.effective_user.full_name
full_name(u) == <<"U">> \o str(u)

-----------------------------------------------------------------------------
(* The program state as one record, and the heap *)

\* user_data.get('current_order') when there is none
NoOrder == [cart |-> 0, total |-> 0, user_id |-> 0, user_name |-> <<>>, status |-> "None"]

\* a user_data dict nobody has written to: 'cart' absent (0), no state, no address (<<>>)
EmptyUserData == [cart |-> 0, current_order |-> NoOrder, state |-> None, delivery_address |-> <<>>]

\* the state a handler reads and writes; exc names the exception it raised, if any
Cur == [ADMIN_ID |-> ADMIN_ID, products |-> products, objs |-> objs, lists |-> lists,
        user_data |-> user_data, orders_file |-> orders_file, save_calls |-> save_calls,
        out |-> <<>>, exc |-> ""]

\* bot.send_message / reply_text / edit_message_text / query.answer with a text
\* `user' is the customer id the text names (0: none); `to' is the chat id as a string
MsgAbout(to, kind, items, total, buttons, user) ==
    [to |-> to, kind |-> kind, items |-> items, total |-> total, buttons |-> buttons,
     user |-> user]

Msg(to, kind, items, total, buttons) == MsgAbout(to, kind, items, total, buttons, 0)

Send(S, m) == [S EXCEPT !.out = Append(@, m)]

Raise(S, e) == [S EXCEPT !.exc = e]

\* context.user_data.get('cart', []) as a list of product dicts
CartRefs(S, u) == IF S.user_data[u].cart = 0 THEN <<>> ELSE S.lists[S.user_data[u].cart]

Deref(S, refs) == [i \in 1..Len(refs) |-> S.objs[refs[i]]]

\* sum(...) over cart[1:]
RECURSIVE sum_from_second(_)
sum_from_second(items) ==
    IF Len(items) <= 1 THEN 0 ELSE items[2].price + sum_from_second(Tail(items))

\* sum(item['price'] for item in cart)
RECURSIVE sum(_)
sum(items) == IF items = <<>> THEN 0 ELSE items[1].price + sum(Tail(items))

\* the "name - price" lines a message shows for a list of items
Lines(items) == [i \in 1..Len(items) |-> [name |-> items[i].name, price |-> items[i].price]]

RECURSIVE Uniq(_)
Uniq(s) ==
    IF s = <<>> THEN <<>>
    ELSE LET r == Uniq(SubSeq(s, 1, Len(s)-1))
             x == s[Len(s)]
         IN  IF \E i \in 1..Len(r) : r[i] = x THEN r ELSE Append(r, x)

RECURSIVE Flatten(_)
Flatten(ss) == IF ss = <<>> THEN <<>> ELSE ss[1] \o Flatten(Tail(ss))

IndexOf(s, x) == CHOOSE i \in 1..Len(s) : s[i] = x

IsRef(r) == r # 0

\* every product id the catalog can hold, in a fixed order
PidOrder == <<InitialProducts[1].id, InitialProducts[2].id, InitialProducts[3].id,
              InitialProducts[4].id, <<"r","e","d","_","k","i","w","i">>, <<"r","e","d">>>>

\* the lists user_data refers to, in user order, each once
ListRoots(S) ==
    Uniq(SelectSeq(Flatten([u \in 1..NumUsers |->
            <<S.user_data[u].cart, S.user_data[u].current_order.cart>>]), IsRef))

\* the product dicts the catalog and the lists `lroots' refer to, each once
ObjRoots(S, lroots) ==
    Uniq(Flatten([i \in 1..Len(PidOrder) |->
                    IF PidOrder[i] \in DOMAIN S.products
                    THEN <<S.products[PidOrder[i]]>> ELSE <<>>])
         \o Flatten([i \in 1..Len(lroots) |-> S.lists[lroots[i]]]))

Renumber(S, lroots, oroots) ==
    [S EXCEPT
        !.objs = [i \in 1..Len(oroots) |-> S.objs[oroots[i]]],
        !.lists = [i \in 1..Len(lroots) |->
                      [j \in 1..Len(S.lists[lroots[i]]) |-> IndexOf(oroots, S.lists[lroots[i]][j])]],
        !.products = [p \in DOMAIN S.products |-> IndexOf(oroots, S.products[p])],
        !.user_data = [u \in Users |->
            [S.user_data[u] EXCEPT
                !.cart = IF @ = 0 THEN 0 ELSE IndexOf(lroots, @),
                !.current_order.cart = IF @ = 0 THEN 0 ELSE IndexOf(lroots, @)]]]

SweepObjs(S, lroots) == Renumber(S, lroots, ObjRoots(S, lroots))

\* Reference counting: drop the lists and product dicts nothing refers to any
\* more and renumber the rest in a fixed order.
Collect(S) == SweepObjs(S, ListRoots(S))

-----------------------------------------------------------------------------
(* Cart handlers *)

\* show_cart
show_cart(S, ev) ==
    LET u == ev.user
        cart == Deref(S, CartRefs(S, u))
    IN  IF cart = <<>>
        THEN Send(S, Msg(str(u), "cart_empty", <<>>, 0, <<>>))
        ELSE Send(S, Msg(str(u), "cart_view", Lines(cart), sum(cart),
                         <<D_menu, D_clear_cart, D_checkout_order>>
                         \o [i \in 1..Len(cart) |-> P_remove \o str(i-1)]))

\* add_to_cart
add_to_cart(S, ev) ==
    LET u == ev.user
        product_id == split(ev.data, "_")[2]
        S1 == IF S.user_data[u].cart = 0
              THEN [S EXCEPT !.lists = Append(@, <<>>),
                             !.user_data[u].cart = Len(S.lists) + 1]
              ELSE S
        c == S1.user_data[u].cart
    IN  IF product_id \notin DOMAIN S1.products
        THEN Raise(S1, "KeyError")
        ELSE Send([S1 EXCEPT !.lists[c] = Append(@, S1.products[product_id])],
                  Msg(str(u), "added", <<[name |-> S1.objs[S1.products[product_id]].name,
                                           price |-> S1.objs[S1.products[product_id]].price]>>, 0, <<>>))

\* remove_from_cart with cart.pop() in place of cart.pop(index)
remove_from_cart_pop_last(S, ev) ==
    LET u == ev.user
        index == int(split(ev.data, "_")[2])
        c == S.user_data[u].cart
        cart == CartRefs(S, u)
    IN  IF ~index.ok THEN Raise(S, "ValueError")
        ELSE IF 0 <= index.val /\ index.val < Len(cart)
             THEN show_cart(
                    Send([S EXCEPT !.lists[c] = SubSeq(cart, 1, Len(cart) - 1)],
                         Msg(str(u), "removed", Lines(<<S.objs[cart[Len(cart)]]>>), 0, <<>>)),
                    ev)
             ELSE show_cart(S, ev)

\* remove_from_cart
remove_from_cart(S, ev) ==
    LET u == ev.user
        index == int(split(ev.data, "_")[2])
        c == S.user_data[u].cart
        cart == CartRefs(S, u)
    IN  IF ~index.ok THEN Raise(S, "ValueError")
        ELSE IF 0 <= index.val /\ index.val < Len(cart)
             THEN show_cart(
                    Send([S EXCEPT !.lists[c] = SubSeq(cart, 1, index.val) \o
                                                SubSeq(cart, index.val + 2, Len(cart))],
                         Msg(str(u), "removed", Lines(<<S.objs[cart[index.val + 1]]>>), 0, <<>>)),
                    ev)
             ELSE show_cart(S, ev)

\* clear_cart
clear_cart(S, ev) ==
    LET u == ev.user
    IN  show_cart(Send([S EXCEPT !.lists = Append(@, <<>>),
                                 !.user_data[u].cart = Len(S.lists) + 1],
                       Msg(str(u), "cleared", <<>>, 0, <<>>)),
                  ev)

-----------------------------------------------------------------------------
(* Order workflow handlers *)

\* load_orders
load_orders(S) == S.orders_file

\* what json.dump writes for an order: the order with its cart items by value
Entry(S, order) ==
    [user_id |-> order.user_id, user_name |-> order.user_name,
     cart |-> Deref(S, S.lists[order.cart]), total |-> order.total,
     status |-> order.status]

\* save_order writing the new order alone, without load_orders
save_order_overwrite(S, order) ==
    [S EXCEPT !.orders_file = <<Entry(S, order)>>,
              !.save_calls = Append(@, Entry(S, order))]

\* save_order: load_orders, append, rewrite the file; there is no await in it
save_order(S, order) ==
    [S EXCEPT !.orders_file = Append(load_orders(S), Entry(S, order)),
              !.save_calls = Append(@, Entry(S, order))]

\* checkout_order (the button)
checkout_order(S, ev) ==
    LET u == ev.user
        cart == Deref(S, CartRefs(S, u))
    IN  IF cart = <<>>
        THEN Send(S, Msg(str(u), "cart_empty", <<>>, 0, <<>>))
        ELSE Send([S EXCEPT !.user_data[u].current_order =
                        [cart |-> S.user_data[u].cart, total |-> sum(cart), user_id |-> u,
                         user_name |-> full_name(u), status |-> "pending"]],
                  Msg(str(u), "order_view", Lines(cart), sum(cart), <<D_pay_tinkoff>>))

\* checkout (the /checkout command handler; main() never registers it)
checkout(S, ev) == checkout_order(S, ev)

\* pay_tinkoff without its `if not order' branch
pay_tinkoff_without_check(S, ev) ==
    LET u == ev.user
        order == S.user_data[u].current_order
    IN  Send(Send([S EXCEPT !.user_data[u].state = AWAITING_PAYMENT_CONFIRMATION],
                  Msg(str(u), "pay_details", <<>>, order.total, <<>>)),
             Msg(str(u), "pay_buttons", <<>>, 0, <<D_confirm_payment>>))

\* pay_tinkoff
pay_tinkoff(S, ev) ==
    LET u == ev.user
        order == S.user_data[u].current_order
    IN  IF order = NoOrder
        THEN Send(S, Msg(str(u), "no_order", <<>>, 0, <<>>))
        ELSE Send(Send([S EXCEPT !.user_data[u].state = AWAITING_PAYMENT_CONFIRMATION],
                       Msg(str(u), "pay_details", <<>>, order.total, <<>>)),
                  Msg(str(u), "pay_buttons", <<>>, 0, <<D_confirm_payment>>))

\* confirm_payment
confirm_payment(S, ev) ==
    LET u == ev.user
        order == S.user_data[u].current_order
        S1 == Send(S, Msg(str(u), "waiting_for_admin", <<>>, 0, <<>>))
        S2 == IF S.ADMIN_ID # <<>>
              THEN Send(S1, MsgAbout(S.ADMIN_ID, "new_order",
                                     Lines(Deref(S, S.lists[order.cart])), order.total,
                                     <<P_approve \o str(u)>>, u))
              ELSE S1
    IN  IF order = NoOrder
        THEN Send(S1, Msg(str(u), "order_not_found", <<>>, 0, <<>>))
        ELSE Send(S2, Msg(str(u), "send_receipt_prompt", <<>>, 0, <<>>))

\* approve_payment up to its first await: the user id is parsed and
\* bot.get_chat is called
approve_payment_parse(S, ev) ==
    IF ~int(split(ev.data, "_")[2]).ok THEN Raise(S, "ValueError") ELSE S

\* approve_payment from the return of get_chat to its second await: get_chat
\* fails for a chat that does not exist, then the callback query is answered
approve_payment_answer(S, ev) ==
    LET user_id == int(split(ev.data, "_")[2])
    IN  IF user_id.val \notin Users THEN Raise(S, "BadRequest")
        ELSE Send(S, Msg(str(ev.user), "answer_payment_confirmed", <<>>, 0, <<>>))

\* approve_payment up to its third await: the customer is told the payment is
\* confirmed
approve_payment_confirm(S, ev) ==
    LET user_id == int(split(ev.data, "_")[2])
    IN  Send(S, Msg(str(user_id.val), "payment_confirmed", <<>>, 0, <<>>))

\* approve_payment leaving current_order in place when it clears the session
approve_payment_finalize_keeps_order(S, ev) ==
    LET p == ev.user
        user_id == int(split(ev.data, "_")[2])
        order == S.user_data[p].current_order
        paid == [order EXCEPT !.status = "paid"]
        S2 == IF order # NoOrder THEN save_order(S, paid) ELSE S
        S3 == [S2 EXCEPT !.lists = Append(@, <<>>),
                         !.user_data[p].cart = Len(S2.lists) + 1,
                         !.user_data[p].current_order =
                            IF order # NoOrder THEN paid ELSE NoOrder,
                         !.user_data[p].state = None]
    IN  IF order = NoOrder THEN Raise(S3, "TypeError")
        ELSE Send(S3, MsgAbout(str(user_id.val), "receipt",
                               Lines(Deref(S2, S2.lists[order.cart])), order.total, <<>>,
                               user_id.val))

\* approve_payment from there to its last await: the order is looked up in
\* context.user_data, the dict of the user who pressed the button, saved,
\* the session is cleared and the receipt is built and sent
approve_payment_finalize(S, ev) ==
    LET p == ev.user
        user_id == int(split(ev.data, "_")[2])
        order == S.user_data[p].current_order
        paid == [order EXCEPT !.status = "paid"]
        S2 == IF order # NoOrder THEN save_order(S, paid) ELSE S
        S3 == [S2 EXCEPT !.lists = Append(@, <<>>),
                         !.user_data[p].cart = Len(S2.lists) + 1,
                         !.user_data[p].current_order = NoOrder,
                         !.user_data[p].state = None]
    IN  IF order = NoOrder THEN Raise(S3, "TypeError")
        ELSE Send(S3, MsgAbout(str(user_id.val), "receipt",
                               Lines(Deref(S2, S2.lists[order.cart])), order.total, <<>>,
                               user_id.val))

\* approve_payment, run from its call to its end
approve_payment(S, ev) ==
    LET S1 == approve_payment_parse(S, ev)
        S2 == IF S1.exc # "" THEN S1 ELSE approve_payment_answer(S1, ev)
        S3 == IF S2.exc # "" THEN S2 ELSE approve_payment_confirm(S2, ev)
    IN  IF S3.exc # "" THEN S3 ELSE approve_payment_finalize(S3, ev)

\* handle_message; ev.kind = "media" is a photo or document, whose message.text is None
handle_message(S, ev) ==
    LET u == ev.user
        address == strip(ev.data)
    IN  IF S.user_data[u].state # AWAITING_PAYMENT_CONFIRMATION THEN S
        ELSE IF ev.kind = "media" THEN Raise(S, "AttributeError")
        ELSE IF address # <<>>
             THEN Send([S EXCEPT !.user_data[u].delivery_address = address,
                                 !.user_data[u].state = None],
                       Msg(str(u), "address_saved", <<>>, 0, <<D_pay_tinkoff>>))
             ELSE Send(S, Msg(str(u), "address_empty", <<>>, 0, <<>>))

-----------------------------------------------------------------------------
(* Administration *)

\* is_admin
is_admin(S, user_id) == str(user_id) = S.ADMIN_ID

\* admin_only without its `return': the refusal is sent and the handler runs anyway
admin_only_no_return(S, ev, handled) ==
    IF ~is_admin(S, ev.user)
    THEN Send(handled, Msg(str(ev.user), "no_admin_rights", <<>>, 0, <<>>))
    ELSE handled

\* admin_only: the wrapper around every admin command; `handled' is what the
\* wrapped handler makes of S and ev
admin_only(S, ev, handled) ==
    IF ~is_admin(S, ev.user)
    THEN Send(S, Msg(str(ev.user), "no_admin_rights", <<>>, 0, <<>>))
    ELSE handled

\* admin
admin(S, ev) == Send(S, Msg(str(ev.user), "admin_panel", <<>>, 0, <<>>))

\* list_orders with orders_list[:5] in place of orders_list[-5:]
list_orders_first_five(S, ev) ==
    LET orders_list == load_orders(S)
        n == Len(orders_list)
        recent == SubSeq(orders_list, 1, IF n > 5 THEN 5 ELSE n)
    IN  IF orders_list = <<>>
        THEN Send(S, Msg(str(ev.user), "no_orders", <<>>, 0, <<>>))
        ELSE [S EXCEPT !.out = @ \o [i \in 1..Len(recent) |->
                  MsgAbout(str(ev.user), "order", Lines(recent[i].cart), recent[i].total,
                           <<>>, recent[i].user_id)]]

\* list_orders: one message per order of orders_list[-5:]
list_orders(S, ev) ==
    LET orders_list == load_orders(S)
        n == Len(orders_list)
        recent == SubSeq(orders_list, IF n > 5 THEN n - 4 ELSE 1, n)
    IN  IF orders_list = <<>>
        THEN Send(S, Msg(str(ev.user), "no_orders", <<>>, 0, <<>>))
        ELSE [S EXCEPT !.out = @ \o [i \in 1..Len(recent) |->
                  MsgAbout(str(ev.user), "order", Lines(recent[i].cart), recent[i].total,
                           <<>>, recent[i].user_id)]]

\* list_products_cmd; the dict's iteration order is not modelled, PidOrder stands for it
list_products_cmd(S, ev) ==
    LET present == SelectSeq(PidOrder, LAMBDA pid : pid \in DOMAIN S.products)
    IN  Send(S, Msg(str(ev.user), "product_list",
                    Lines([i \in 1..Len(present) |-> S.objs[S.products[present[i]]]]), 0, <<>>))

\* add_product_cmd updating the dict of a product that exists instead of replacing it
add_product_cmd_in_place(S, ev) ==
    LET args == ev.args
        name == args[1]
        price == int(args[2])
        product_id == lower(name)
        new == [id |-> product_id, name |-> name, price |-> price.val]
    IN  IF Len(args) < 2 \/ ~price.ok
        THEN Send(S, Msg(str(ev.user), "add_product_usage", <<>>, 0, <<>>))
        ELSE IF product_id \in DOMAIN S.products
        THEN Send([S EXCEPT !.objs[S.products[product_id]] = new],
                  Msg(str(ev.user), "product_added", <<>>, 0, <<>>))
        ELSE Send([S EXCEPT !.objs = Append(@, new),
                            !.products = (product_id :> (Len(S.objs) + 1)) @@ @],
                  Msg(str(ev.user), "product_added", <<>>, 0, <<>>))

\* add_product_cmd
add_product_cmd(S, ev) ==
    LET args == ev.args
        name == args[1]
        price == int(args[2])
        product_id == lower(name)
    IN  IF Len(args) < 2 \/ ~price.ok
        THEN Send(S, Msg(str(ev.user), "add_product_usage", <<>>, 0, <<>>))
        ELSE Send([S EXCEPT !.objs = Append(@, [id |-> product_id, name |-> name,
                                                 price |-> price.val]),
                            !.products = (product_id :> (Len(S.objs) + 1)) @@ @],
                  Msg(str(ev.user), "product_added", <<>>, 0, <<>>))

\* remove_product_cmd
remove_product_cmd(S, ev) ==
    LET args == ev.args
        product_id == lower(args[1])
    IN  IF Len(args) < 1
        THEN Send(S, Msg(str(ev.user), "remove_product_usage", <<>>, 0, <<>>))
        ELSE IF product_id \in DOMAIN S.products
             THEN Send([S EXCEPT !.products = [q \in (DOMAIN @) \ {product_id} |-> @[q]]],
                       Msg(str(ev.user), "product_removed", <<>>, 0, <<>>))
             ELSE Send(S, Msg(str(ev.user), "product_not_found", <<>>, 0, <<>>))

\* error_handler: what the user is told when a handler raised
error_handler(S, ev) == Send(S, Msg(str(ev.user), "internal_error", <<>>, 0, <<>>))

-----------------------------------------------------------------------------
(* Menus and dispatch *)

\* start (the /start command and the 'back' button)
start(S, ev) ==
    Send(S, Msg(str(ev.user), "welcome", <<>>, Len(CartRefs(S, ev.user)), <<D_menu, D_cart>>))

\* help_command
help_command(S, ev) == Send(S, Msg(str(ev.user), "help", <<>>, 0, <<>>))

\* show_menu: one add_<product_id> button per product, then 'back'
show_menu(S, ev) ==
    LET present == SelectSeq(PidOrder, LAMBDA pid : pid \in DOMAIN S.products)
    IN  Send(S, Msg(str(ev.user), "menu",
                    Lines([i \in 1..Len(present) |-> S.objs[S.products[present[i]]]]), 0,
                    [i \in 1..Len(present) |-> P_add \o present[i]] \o <<D_back>>))

\* main_button_handler (its last definition, the one main() registers): the
\* handler its if/elif chain awaits for a callback_data value
main_button_handler(data) ==
    IF data = D_menu THEN "show_menu"
    ELSE IF data = D_cart THEN "show_cart"
    ELSE IF data = D_back THEN "start"
    ELSE IF data = D_clear_cart THEN "clear_cart"
    ELSE IF startswith(data, P_add) THEN "add_to_cart"
    ELSE IF startswith(data, P_remove) THEN "remove_from_cart"
    ELSE IF data = D_checkout_order THEN "checkout_order"
    ELSE IF data = D_pay_tinkoff THEN "pay_tinkoff"
    ELSE IF data = D_confirm_payment THEN "confirm_payment"
    ELSE IF startswith(data, P_approve) THEN "approve_payment"
    ELSE "none"

\* the handlers main() registers: commands by name, main_button_handler for
\* callback queries, handle_message for text that is not a command and for
\* photos and documents; "none" when no handler takes the update
main(ev) ==
    IF ev.kind = "command"
    THEN IF ev.data = C_start THEN "start"
         ELSE IF ev.data = C_help THEN "help_command"
         ELSE IF ev.data = C_admin THEN "admin"
         ELSE IF ev.data = C_orders THEN "list_orders"
         ELSE IF ev.data = C_list_products THEN "list_products_cmd"
         ELSE IF ev.data = C_add_product THEN "add_product_cmd"
         ELSE IF ev.data = C_remove_product THEN "remove_product_cmd"
         ELSE "none"
    ELSE IF ev.kind = "callback_query" THEN main_button_handler(ev.data)
    ELSE "handle_message"

\* the call of the handler named h; the five admin commands are wrapped by
\* the @admin_only decorator
call(h, S, ev) ==
    CASE h = "show_menu" -> show_menu(S, ev)
      [] h = "show_cart" -> show_cart(S, ev)
      [] h = "start" -> start(S, ev)
      [] h = "help_command" -> help_command(S, ev)
      [] h = "clear_cart" -> clear_cart(S, ev)
      [] h = "add_to_cart" -> add_to_cart(S, ev)
      [] h = "remove_from_cart" -> remove_from_cart(S, ev)
      [] h = "checkout_order" -> checkout_order(S, ev)
      [] h = "pay_tinkoff" -> pay_tinkoff(S, ev)
      [] h = "confirm_payment" -> confirm_payment(S, ev)
      [] h = "approve_payment" -> approve_payment(S, ev)
      [] h = "handle_message" -> handle_message(S, ev)
      [] h = "admin" -> admin_only(S, ev, admin(S, ev))
      [] h = "list_orders" -> admin_only(S, ev, list_orders(S, ev))
      [] h = "list_products_cmd" -> admin_only(S, ev, list_products_cmd(S, ev))
      [] h = "add_product_cmd" -> admin_only(S, ev, add_product_cmd(S, ev))
      [] h = "remove_product_cmd" -> admin_only(S, ev, remove_product_cmd(S, ev))
      [] OTHER -> S

\* History of the order scenario "add items, checkout, address, pay, I paid,
\* approve" played by user Buyer with user 1 approving: the number of its
\* steps that the latest updates have made, in order and with nothing in
\* between, and the address that was sent.
Buyer == 2

Track(sc, ev) ==
    IF ev.kind = "callback_query" /\ ev.user = Buyer /\ startswith(ev.data, P_add)
    THEN [stage |-> 1, address |-> <<>>]
    ELSE IF sc.stage = 1 /\ ev.kind = "callback_query" /\ ev.user = Buyer
            /\ ev.data = D_checkout_order
    THEN [sc EXCEPT !.stage = 2]
    ELSE IF sc.stage = 2 /\ ev.kind = "text" /\ ev.user = Buyer /\ strip(ev.data) # <<>>
    THEN [stage |-> 3, address |-> strip(ev.data)]
    ELSE IF sc.stage = 3 /\ ev.kind = "callback_query" /\ ev.user = Buyer
            /\ ev.data = D_pay_tinkoff
    THEN [sc EXCEPT !.stage = 4]
    ELSE IF sc.stage = 4 /\ ev.kind = "callback_query" /\ ev.user = Buyer
            /\ ev.data = D_confirm_payment
    THEN [sc EXCEPT !.stage = 5]
    ELSE IF sc.stage = 5 /\ ev.kind = "callback_query" /\ ev.user = 1
            /\ ev.data = P_approve \o str(Buyer)
    THEN [sc EXCEPT !.stage = 6]
    ELSE [stage |-> 0, address |-> <<>>]

\* the end of an update: error_handler if the handler raised, then the heap is swept
Finish(R, ev) == Collect(IF R.exc # "" THEN error_handler(R, ev) ELSE R)

\* the state N a handler leaves becomes the state of the program
Apply(N, ev) ==
    /\ products' = N.products
    /\ objs' = N.objs
    /\ lists' = N.lists
    /\ user_data' = N.user_data
    /\ orders_file' = N.orders_file
    /\ save_calls' = N.save_calls
    /\ out' = N.out
    /\ last' = ev
    /\ UNCHANGED ADMIN_ID

\* One update, handled to completion by the handler h that main() registers
\* for it: the handler runs, error_handler runs if it raised, and what became
\* unreachable is dropped from the heap.  Application.builder() leaves
\* concurrent_updates off, so an update is handled before the next is taken.
Handle(h, ev) ==
    \E N \in {Finish(call(h, Cur, ev), ev)} :
        /\ Apply(N, ev)
        /\ scenario' = Track(scenario, ev)
        /\ UNCHANGED tasks

\* an update that is not counted
Update(h, ev) == Handle(h, ev) /\ UNCHANGED audit

Callback(u, data) == [kind |-> "callback_query", user |-> u, data |-> data, args |-> <<>>]
Command(u, name, args) == [kind |-> "command", user |-> u, data |-> name, args |-> args]
Text(u, body) == [kind |-> "text", user |-> u, data |-> body, args |-> <<>>]
Media(u) == [kind |-> "media", user |-> u, data |-> <<>>, args |-> <<>>]

\* before the first update
NoEvent == [kind |-> "none", user |-> 0, data |-> <<>>, args |-> <<>>]

\* no approve_payment coroutine is suspended
NoTask == [pc |-> "idle", ev |-> NoEvent]

-----------------------------------------------------------------------------
(* Inputs *)

\* the user who only shops, in the catalog specification
Shoppers == {2}

\* product ids of the add_<id> buttons pressed: buttons of the current menu and
\* of menus rendered earlier
AddPids == {InitialProducts[1].id, PidOrder[5]}

\* the one product ordered in the order-workflow specification
OrderPids == {InitialProducts[1].id}

\* the indices of the remove_<i> buttons pressed, stale and hand-made ones included
RemoveIndices == -1..MaxCart

\* argument lists of /add_product that change the catalog
CatalogEdits ==
    { <<<<"A","p","p","l","e">>, <<"6","0">>>>,
      <<<<"r","e","d","_","k","i","w","i">>, <<"3","0">>>> }

\* the argument list of /add_product that re-prices a product on sale
Repricings == { <<<<"A","p","p","l","e">>, <<"6","0">>>> }

\* argument lists of /add_product: a price of zero, a negative one, one that
\* is no number, a missing price, no arguments
AddProductArgs ==
    CatalogEdits \cup
    { <<<<"r","e","d">>, <<"0">>>>,
      <<<<"A","p","p","l","e">>, <<"-","5">>>>,
      <<<<"A","p","p","l","e">>, <<"x">>>>,
      <<<<"A","p","p","l","e">>>>,
      <<>> }

\* argument lists of /remove_product that change the catalog
CatalogRemovals == { <<<<"A","p","p","l","e">>>> }

\* argument lists of /remove_product
RemoveProductArgs == CatalogRemovals \cup { <<<<"r","e","d">>>>, <<>> }

\* bodies of text messages: an address with blanks around it, blanks only
TextBodies == { <<" ","M","a","i","n"," ">>, <<" ">> }

\* the values ADMIN_USER_ID takes: unset, or user 1
AdminIds == { <<>>, str(1) }

\* the user who runs the shop and orders from it, in the ledger specification
Owner == {1}

\* the users whose approve_payment coroutines interleave
Approvers == {1, 2}

\* orders.json as earlier runs of the bot left it, with k orders that all differ
PriorOrders(k) ==
    [i \in 1..k |->
        [user_id |-> ((i - 1) % NumUsers) + 1,
         user_name |-> full_name(((i - 1) % NumUsers) + 1),
         cart |-> [j \in 1..(1 + ((i - 1) \div 4)) |-> InitialProducts[((i - 1) % 4) + 1]],
         total |-> (1 + ((i - 1) \div 4)) * InitialProducts[((i - 1) % 4) + 1].price,
         status |-> "paid"]]

-----------------------------------------------------------------------------
(* The state machine *)

\* the state after the module is loaded, with orders.json holding `file'
Loaded(file) ==
    /\ ADMIN_ID \in AdminIds
    /\ objs = InitialProducts
    /\ products = [pid \in {InitialProducts[i].id : i \in 1..Len(InitialProducts)} |->
                      CHOOSE i \in 1..Len(InitialProducts) : InitialProducts[i].id = pid]
    /\ lists = <<>>
    /\ user_data = [u \in Users |-> EmptyUserData]
    /\ orders_file = file
    /\ last = NoEvent
    /\ out = <<>>
    /\ tasks = [u \in Users |-> NoTask]
    /\ save_calls = <<>>
    /\ scenario = [stage |-> 0, address |-> <<>>]
    /\ audit = [checkouts |-> [u \in Users |-> 0], approved |-> {}]

\* the first start: there is no orders.json
Init == Loaded(<<>>)

\* a later start: orders.json holds the orders of earlier runs
InitLedger == \E k \in 0..MaxPrior : Loaded(PriorOrders(k))

ShowMenu(U) ==
    \E u \in U :
        /\ main(Callback(u, D_menu)) = "show_menu"
        /\ Update("show_menu", Callback(u, D_menu))

ShowCart(U) ==
    \E u \in U :
        /\ main(Callback(u, D_cart)) = "show_cart"
        /\ Update("show_cart", Callback(u, D_cart))

ClearCart(U) ==
    \E u \in U :
        /\ main(Callback(u, D_clear_cart)) = "clear_cart"
        /\ Update("clear_cart", Callback(u, D_clear_cart))

AddToCart(U, pids, max) ==
    \E u \in U, pid \in pids :
        /\ Len(CartRefs(Cur, u)) < max
        /\ main(Callback(u, P_add \o pid)) = "add_to_cart"
        /\ Update("add_to_cart", Callback(u, P_add \o pid))

RemoveFromCart(U) ==
    \E u \in U, i \in RemoveIndices :
        /\ main(Callback(u, P_remove \o str(i))) = "remove_from_cart"
        /\ Update("remove_from_cart", Callback(u, P_remove \o str(i)))

CheckoutOrder(U) ==
    \E u \in U :
        /\ main(Callback(u, D_checkout_order)) = "checkout_order"
        /\ Update("checkout_order", Callback(u, D_checkout_order))

\* the successful checkouts of users 1..n together
RECURSIVE CheckoutsUpTo(_, _)
CheckoutsUpTo(count, n) == IF n = 0 THEN 0 ELSE count[n] + CheckoutsUpTo(count, n - 1)

\* checkout_order, counted: a checkout that makes a draft is one more
\* successful checkout of the user, who has not pressed approve since
CheckoutCounted(U) ==
    \E u \in U :
        /\ CheckoutsUpTo(audit.checkouts, NumUsers) < MaxCheckouts
        /\ main(Callback(u, D_checkout_order)) = "checkout_order"
        /\ Handle("checkout_order", Callback(u, D_checkout_order))
        /\ audit' = IF \E i \in 1..Len(out') : out'[i].kind = "order_view"
                    THEN [checkouts |-> [audit.checkouts EXCEPT ![u] = @ + 1],
                          approved |-> audit.approved \ {u}]
                    ELSE audit

\* /checkout: main() registers no handler for it
CheckoutCommand(U) ==
    \E u \in U :
        /\ main(Command(u, C_checkout, <<>>)) = "none"
        /\ Update("none", Command(u, C_checkout, <<>>))

\* a button main_button_handler has no branch for: the query is answered and
\* nothing else happens
SetAddress(U) ==
    \E u \in U :
        /\ main(Callback(u, D_set_address)) = "none"
        /\ Update("none", Callback(u, D_set_address))

PayTinkoff(U) ==
    \E u \in U :
        /\ main(Callback(u, D_pay_tinkoff)) = "pay_tinkoff"
        /\ Update("pay_tinkoff", Callback(u, D_pay_tinkoff))

ConfirmPayment(U) ==
    \E u \in U :
        /\ main(Callback(u, D_confirm_payment)) = "confirm_payment"
        /\ Update("confirm_payment", Callback(u, D_confirm_payment))

ApprovePayment(U) ==
    \E u \in U, t \in Users :
        /\ user_data[u].current_order # NoOrder => Len(save_calls) < MaxLedger
        /\ main(Callback(u, P_approve \o str(t))) = "approve_payment"
        /\ Update("approve_payment", Callback(u, P_approve \o str(t)))

\* approve_payment, counted: the user who pressed has pressed approve
ApproveCounted(U) ==
    \E u \in U, t \in U :
        /\ user_data[u].current_order # NoOrder => Len(save_calls) < MaxLedger
        /\ main(Callback(u, P_approve \o str(t))) = "approve_payment"
        /\ Handle("approve_payment", Callback(u, P_approve \o str(t)))
        /\ audit' = [audit EXCEPT !.approved = @ \cup {u}]

HandleMessage(U) ==
    \E u \in U, body \in TextBodies :
        /\ main(Text(u, body)) = "handle_message"
        /\ Update("handle_message", Text(u, body))

HandleMedia(U) ==
    \E u \in U :
        /\ main(Media(u)) = "handle_message"
        /\ Update("handle_message", Media(u))

AdminCommand(U) ==
    \E u \in U :
        /\ main(Command(u, C_admin, <<>>)) = "admin"
        /\ Update("admin", Command(u, C_admin, <<>>))

ListOrders(U) ==
    \E u \in U :
        /\ main(Command(u, C_orders, <<>>)) = "list_orders"
        /\ Update("list_orders", Command(u, C_orders, <<>>))

ListProducts(U) ==
    \E u \in U :
        /\ main(Command(u, C_list_products, <<>>)) = "list_products_cmd"
        /\ Update("list_products_cmd", Command(u, C_list_products, <<>>))

AddProduct(U, arglists) ==
    \E u \in U, args \in arglists :
        /\ main(Command(u, C_add_product, args)) = "add_product_cmd"
        /\ Update("add_product_cmd", Command(u, C_add_product, args))

RemoveProduct(U, arglists) ==
    \E u \in U, args \in arglists :
        /\ main(Command(u, C_remove_product, args)) = "remove_product_cmd"
        /\ Update("remove_product_cmd", Command(u, C_remove_product, args))

\* approve_payment with concurrent updates: the coroutine of user p runs from
\* one await to the next in one step, and other handlers run in between.
\* `R' is the state the segment leaves and `next' the await it stops at.
Suspend(p, ev, R, next) ==
    /\ Apply(Finish(R, ev), ev)
    /\ tasks' = [tasks EXCEPT ![p] = IF R.exc = "" /\ next # "idle"
                                     THEN [pc |-> next, ev |-> ev] ELSE NoTask]
    /\ UNCHANGED <<scenario, audit>>

\* an approve_<t> button is pressed: the coroutine runs to `await get_chat'
ApproveCalled(P) ==
    \E p \in P, t \in Shoppers :
        /\ tasks[p] = NoTask
        /\ Len(save_calls) + Cardinality({q \in Users : tasks[q] # NoTask}) < MaxLedger
        /\ main(Callback(p, P_approve \o str(t))) = "approve_payment"
        /\ \E R \in {approve_payment_parse(Cur, Callback(p, P_approve \o str(t)))} :
              Suspend(p, Callback(p, P_approve \o str(t)), R, "get_chat")

\* get_chat returns: the coroutine runs to `await query.answer'
ApproveGotChat(P) ==
    \E p \in P :
        /\ tasks[p].pc = "get_chat"
        /\ \E R \in {approve_payment_answer(Cur, tasks[p].ev)} :
              Suspend(p, tasks[p].ev, R, "answer")

\* query.answer returns: the coroutine runs to `await send_message'
ApproveAnswered(P) ==
    \E p \in P :
        /\ tasks[p].pc = "answer"
        /\ \E R \in {approve_payment_confirm(Cur, tasks[p].ev)} :
              Suspend(p, tasks[p].ev, R, "send_message")

\* the last segment appending to a copy of the ledger that was read before an
\* earlier await
ApproveNotified_stale_read(P) ==
    \E p \in P, k \in 0..Len(orders_file) :
        /\ tasks[p].pc = "send_message"
        /\ \E R \in {approve_payment_finalize([Cur EXCEPT !.orders_file = SubSeq(@, 1, k)],
                                                tasks[p].ev)} :
              Suspend(p, tasks[p].ev, R, "idle")

\* send_message returns: the coroutine saves the order, clears the session
\* and runs to its last await, the sending of the receipt, after which it
\* only returns
ApproveNotified(P) ==
    \E p \in P :
        /\ tasks[p].pc = "send_message"
        /\ \E R \in {approve_payment_finalize(Cur, tasks[p].ev)} :
              Suspend(p, tasks[p].ev, R, "idle")

\* The order workflow: every user orders, pays and approves.
Next ==
    \/ AddToCart(Users, OrderPids, MaxOrderItems)
    \/ CheckoutOrder(Users)
    \/ SetAddress(Users)
    \/ PayTinkoff(Users)
    \/ ConfirmPayment(Users)
    \/ ApprovePayment(Users)
    \/ HandleMessage(Users)
    \/ HandleMedia(Users)
    \/ ListOrders(Users)

Spec == Init /\ [][Next]_vars

\* The cart: one user shops while user 1 changes the catalog.
NextCart ==
    \/ ShowCart(Shoppers)
    \/ ClearCart(Shoppers)
    \/ AddToCart(Shoppers, OrderPids, MaxCart)
    \/ RemoveFromCart(Shoppers)
    \/ CheckoutOrder(Shoppers)
    \/ CheckoutCommand(Shoppers)
    \/ AddProduct({1}, Repricings)
    \/ RemoveProduct({1}, CatalogRemovals)

SpecCart == Init /\ [][NextCart]_vars

\* The administrator's commands, tried by every user, and a user who presses
\* the buttons of the menu.
NextAdmin ==
    \/ ShowMenu(Users)
    \/ AddToCart(Shoppers, AddPids, MaxOrderItems)
    \/ AdminCommand(Users)
    \/ ListOrders(Users)
    \/ ListProducts(Users)
    \/ AddProduct(Users, AddProductArgs)
    \/ RemoveProduct(Users, RemoveProductArgs)

SpecAdmin == Init /\ [][NextAdmin]_vars

\* The ledger: the bot starts with the orders of earlier runs, the owner
\* orders and approves, and every user asks for the order list.
NextLedger ==
    \/ AddToCart(Owner, OrderPids, MaxOrderItems)
    \/ CheckoutOrder(Owner)
    \/ PayTinkoff(Owner)
    \/ ApprovePayment(Owner)
    \/ ListOrders(Users)

SpecLedger == InitLedger /\ [][NextLedger]_vars

\* Concurrent updates: two users order while their approve_payment
\* coroutines interleave at every await.
NextAsync ==
    \/ AddToCart(Approvers, OrderPids, MaxOrderItems)
    \/ CheckoutOrder(Approvers)
    \/ ApproveCalled(Approvers)
    \/ ApproveGotChat(Approvers)
    \/ ApproveAnswered(Approvers)
    \/ ApproveNotified(Approvers)

SpecAsync == Init /\ [][NextAsync]_vars

\* Finalization: two users order, press "I paid" and press approve buttons,
\* again and again, while their checkouts and approve presses are counted.
NextOnce ==
    \/ AddToCart(Approvers, OrderPids, MaxOrderItems)
    \/ CheckoutCounted(Approvers)
    \/ ConfirmPayment(Approvers)
    \/ ApproveCounted(Approvers)

SpecOnce == Init /\ [][NextOnce]_vars

-----------------------------------------------------------------------------
(* Observations used by the properties *)

\* the items of a user's cart, by value
CartItems(u) ==
    IF user_data[u].cart = 0 THEN <<>>
    ELSE [i \in 1..Len(lists[user_data[u].cart]) |-> objs[lists[user_data[u].cart][i]]]

\* a user's draft, by value: <<>> when there is none
Draft(u) ==
    IF user_data[u].current_order = NoOrder THEN <<>>
    ELSE <<[items |-> [i \in 1..Len(lists[user_data[u].current_order.cart]) |->
                          objs[lists[user_data[u].current_order.cart][i]]],
            total |-> user_data[u].current_order.total,
            user_id |-> user_data[u].current_order.user_id,
            status |-> user_data[u].current_order.status]>>

\* a user's session, by value
Session(u) ==
    [cart |-> CartItems(u), draft |-> Draft(u), state |-> user_data[u].state,
     delivery_address |-> user_data[u].delivery_address]

\* the catalog, by value
Catalog == [pid \in DOMAIN products |-> objs[products[pid]]]

\* the kinds of the messages sent to chat `to' by the last handler
SentKinds(to) == {out[i].kind : i \in {j \in 1..Len(out) : out[j].to = to}}

IsButton(ev, data) == ev.kind = "callback_query" /\ ev.data = data
IsApprove(ev) == ev.kind = "callback_query" /\ startswith(ev.data, P_approve)
IsAdd(ev) == ev.kind = "callback_query" /\ startswith(ev.data, P_add)
IsRemove(ev) == ev.kind = "callback_query" /\ startswith(ev.data, P_remove)
IsCommand(ev, name) == ev.kind = "command" /\ ev.data = name

\* the text after the prefix of a callback_data value
Suffix(data, prefix) == SubSeq(data, Len(prefix) + 1, Len(data))

\* the user an approve_<userId> button names
ApproveTarget(ev) == CHOOSE t \in Users : ev.data = P_approve \o str(t)

\* sum of the prices of a sequence of items, from the last item backwards
RECURSIVE PriceSum(_)
PriceSum(items) ==
    IF Len(items) = 0 THEN 0
    ELSE PriceSum(SubSeq(items, 1, Len(items) - 1)) + items[Len(items)].price

-----------------------------------------------------------------------------
(* C1 - C5: approval, the order scenario, checkout of an empty cart *)

\* C1: an approve_<u> request for a user u who has a pending draft appends
\* exactly one entry to the ledger, and that entry is u's draft marked paid,
\* from whichever session the administrator pressed the button.
C1_ApproveFinalizesTargetDraft ==
    [][ \A t \in Users :
          (IsButton(last', P_approve \o str(t)) /\ str(last'.user) = ADMIN_ID
           /\ Draft(t) # <<>>)
          => orders_file' = Append(orders_file,
                 [user_id |-> t, user_name |-> full_name(t),
                  cart |-> Draft(t)[1].items, total |-> Draft(t)[1].total,
                  status |-> "paid"]) ]_vars

\* C2: after the administrator's approve_<u> request for a user u who has a
\* draft, u's session has an empty cart, no draft and state None, and every
\* other user's session, the administrator's included, is as it was.
C2_ApproveClearsTargetOnly ==
    [][ \A t \in Users :
          (IsButton(last', P_approve \o str(t)) /\ str(last'.user) = ADMIN_ID
           /\ Draft(t) # <<>>)
          => /\ CartItems(t)' = <<>>
             /\ Draft(t)' = <<>>
             /\ user_data'[t].state = None
             /\ \A v \in Users \ {t} : Session(v)' = Session(v) ]_vars

\* C3: an approve_<u> button pressed by a user who is not the administrator
\* appends nothing to the ledger, changes no session and sends neither the
\* payment-confirmed message nor a receipt.
C3_ApproveByNonAdminRejected ==
    [][ (IsApprove(last') /\ str(last'.user) # ADMIN_ID)
        => /\ orders_file' = orders_file
           /\ \A v \in Users : Session(v)' = Session(v)
           /\ \A i \in 1..Len(out') : out'[i].kind \notin {"payment_confirmed", "receipt"} ]_vars

\* C4: when the buyer's scenario (add items, checkout, address A, pay, "I
\* paid", approve by the administrator) has just been completed, the ledger
\* has exactly one new entry, which is paid, totals the prices of the cart at
\* checkout and carries the delivery address A, and the buyer's cart is empty.
C4_ScenarioEndsInLedgerEntry ==
    [][ (scenario'.stage = 6 /\ ADMIN_ID = str(1))
        => /\ Len(orders_file') = Len(orders_file) + 1
           /\ LET e == orders_file'[Len(orders_file')]
              IN  /\ e.status = "paid"
                  /\ e.total = PriceSum(CartItems(Buyer))
                  /\ "delivery_address" \in DOMAIN e
                  /\ e.delivery_address = scenario'.address
           /\ CartItems(Buyer)' = <<>> ]_vars

\* C5: a checkout request, by the /checkout command or by the checkout_order
\* button, of a user whose cart is empty reports the empty cart and leaves the
\* user's draft, cart and state as they were.
C5_CheckoutOfEmptyCart ==
    [][ \A u \in Users :
          ((last' = Command(u, C_checkout, <<>>) \/ last' = Callback(u, D_checkout_order))
           /\ CartItems(u) = <<>>)
          => /\ "cart_empty" \in SentKinds(str(u))'
             /\ Session(u)' = Session(u) ]_vars

-----------------------------------------------------------------------------
(* C6 - C10: the administrator's commands, the catalog and the cart *)

AdminOnlyCommands == {C_add_product, C_remove_product, C_orders, C_list_products, C_admin}

\* C6: an admin-only command from a user whose id is not the configured
\* administrator id, or from any user when none is configured, is answered
\* with the no-rights message alone, and the catalog stays exactly as it was.
C6_NonAdminCommandRefused ==
    [][ (last'.kind = "command" /\ last'.data \in AdminOnlyCommands
         /\ str(last'.user) # ADMIN_ID)
        => /\ Catalog' = Catalog
           /\ out' = <<Msg(str(last'.user), "no_admin_rights", <<>>, 0, <<>>)>> ]_vars

\* user 2, who is not the administrator, has just been refused /add_product
\* with well-formed arguments
W6_NonAdminAddProductRefused ==
    /\ ADMIN_ID = str(1)
    /\ last = Command(2, C_add_product, <<<<"A","p","p","l","e">>, <<"6","0">>>>)
    /\ "no_admin_rights" \in SentKinds(str(2))
    /\ Catalog[InitialProducts[1].id].price = 50

\* C7: /add_product and /remove_product leave every cart and every draft as
\* they were: each item keeps its name and price, each draft its total.
C7_CatalogChangesLeaveOrders ==
    [][ (IsCommand(last', C_add_product) \/ IsCommand(last', C_remove_product))
        => \A u \in Users : CartItems(u)' = CartItems(u) /\ Draft(u)' = Draft(u) ]_vars

\* the administrator has just re-priced apple to 60 while user 2 holds an
\* apple at 50 in the cart and in a draft totalling 50
W7_RepricedWhileInCartAndDraft ==
    /\ last = Command(1, C_add_product, <<<<"A","p","p","l","e">>, <<"6","0">>>>)
    /\ "product_added" \in SentKinds(str(1))
    /\ Catalog[InitialProducts[1].id].price = 60
    /\ CartItems(2) # <<>>
    /\ CartItems(2)[1].price = 50
    /\ Draft(2) # <<>>
    /\ Draft(2)[1].items[1].price = 50
    /\ Draft(2)[1].total = 50

\* C8: remove_<i> on a cart of n items removes the item at 0-based position i
\* and keeps the others in order when 0 <= i < n; otherwise it removes
\* nothing, says nothing was removed and leaves the cart as it was.
C8_RemoveByIndex ==
    [][ \A u \in Users, i \in RemoveIndices :
          last' = Callback(u, P_remove \o str(i))
          => IF 0 <= i /\ i < Len(CartItems(u))
             THEN CartItems(u)' = [k \in 1..(Len(CartItems(u)) - 1) |->
                                      IF k <= i THEN CartItems(u)[k] ELSE CartItems(u)[k + 1]]
             ELSE /\ CartItems(u)' = CartItems(u)
                  /\ "removed" \notin SentKinds(str(u))' ]_vars

\* user 2 has just removed the first of two items that differ in price
W8_RemovedFirstOfTwo ==
    /\ last = Callback(2, P_remove \o str(0))
    /\ \E i \in 1..Len(out) : /\ out[i].kind = "removed"
                              /\ Len(CartItems(2)) = 1
                              /\ out[i].items[1].price # CartItems(2)[1].price

\* C9: add_<id> for an id in the catalog appends that product's current name
\* and price at the end of the cart and keeps the earlier items; for an id
\* not in the catalog it reports an error and leaves the cart as it was.
C9_AddToCart ==
    [][ \A u \in Users, pid \in AddPids :
          last' = Callback(u, P_add \o pid)
          => IF pid \in DOMAIN products
             THEN CartItems(u)' = Append(CartItems(u), Catalog[pid])
             ELSE /\ CartItems(u)' = CartItems(u)
                  /\ "internal_error" \in SentKinds(str(u))' ]_vars

\* C10: the total a cart view shows is the sum of the prices of the items now
\* in that user's cart, and the empty-cart text is shown only for an empty cart.
C10_ShownTotalIsSumOfCart ==
    \A i \in 1..Len(out) :
        /\ out[i].kind = "cart_view" => out[i].total = PriceSum(CartItems(last.user))
        /\ out[i].kind = "cart_empty" => CartItems(last.user) = <<>>

\* user 2 has just removed an item and is shown a cart of one item priced 60
W10_TotalAfterRemoval ==
    /\ IsRemove(last)
    /\ "removed" \in SentKinds(str(last.user))
    /\ \E i \in 1..Len(out) : out[i].kind = "cart_view" /\ out[i].total = 60

-----------------------------------------------------------------------------
(* C11 - C12: the ledger *)

\* C11: the ledger is append-only: every step leaves orders.json as it was or
\* adds one entry at its end; no entry is changed, moved or removed.
C11_LedgerAppendOnly ==
    [][ \/ orders_file' = orders_file
        \/ /\ Len(orders_file') = Len(orders_file) + 1
           /\ SubSeq(orders_file', 1, Len(orders_file)) = orders_file ]_vars

\* an approval has just appended the owner's order to a ledger that held
\* MaxPrior orders of earlier runs
W11_AppendedToPriorOrders ==
    /\ IsApprove(last)
    /\ Len(save_calls) = 1
    /\ Len(orders_file) = MaxPrior + 1
    /\ SubSeq(orders_file, 1, MaxPrior) = PriorOrders(MaxPrior)
    /\ orders_file[MaxPrior + 1] = save_calls[1]
    /\ orders_file[MaxPrior + 1].status = "paid"

\* C12: /orders from the administrator, with k orders in the ledger, shows the
\* last min(5, k) of them, oldest first, one message each, and leaves the
\* ledger as it was.
C12_OrdersShowsLastFive ==
    [][ (IsCommand(last', C_orders) /\ str(last'.user) = ADMIN_ID)
        => /\ orders_file' = orders_file
           /\ LET k == Len(orders_file)
                  m == IF k < 5 THEN k ELSE 5
                  shown == SelectSeq(out', LAMBDA x : x.kind = "order")
              IN  /\ Len(shown) = m
                  /\ \A i \in 1..m :
                        /\ shown[i].to = ADMIN_ID
                        /\ shown[i].items = Lines(orders_file[k - m + i].cart)
                        /\ shown[i].total = orders_file[k - m + i].total
                        /\ shown[i].user = orders_file[k - m + i].user_id ]_vars

\* the administrator has just listed a ledger of MaxPrior earlier orders and
\* one order approved in this run: five messages, the last for the new order
W12_ListedAfterAppend ==
    /\ last = Command(1, C_orders, <<>>)
    /\ ADMIN_ID = str(1)
    /\ Len(save_calls) = 1
    /\ Len(orders_file) = MaxPrior + 1
    /\ Len(out) = 5
    /\ out[5].total = save_calls[1].total
    /\ out[1].total = orders_file[MaxPrior - 3].total
    /\ out[1].total # orders_file[1].total

-----------------------------------------------------------------------------
(* C13 - C18: input checks and the order workflow *)

\* C13: /add_product from the administrator inserts or overwrites the product
\* when the price is a positive integer; with a price that is zero, negative
\* or no integer, or with arguments missing, it reports the misuse and leaves
\* the catalog as it was; so every price in the catalog is above zero.
C13_AddProductNeedsPositivePrice ==
    [][ (IsCommand(last', C_add_product) /\ str(last'.user) = ADMIN_ID)
        => /\ IF Len(last'.args) >= 2 /\ int(last'.args[2]).ok /\ int(last'.args[2]).val > 0
              THEN Catalog' = [pid \in DOMAIN products \cup {lower(last'.args[1])} |->
                                 IF pid = lower(last'.args[1])
                                 THEN [id |-> pid, name |-> last'.args[1],
                                       price |-> int(last'.args[2]).val]
                                 ELSE Catalog[pid]]
              ELSE /\ Catalog' = Catalog
                   /\ \E i \in 1..Len(out') : out'[i].kind = "add_product_usage"
           /\ \A pid \in DOMAIN products' : Catalog'[pid].price > 0 ]_vars

\* the workflow states of a session, as handle_message tells them apart: a
\* text message is taken as the address in one state only
Idle(u) == user_data[u].state = None
AwaitingAddress(u) == user_data[u].state = AWAITING_PAYMENT_CONFIRMATION

\* C14: a set_address request of an idle session is answered with a prompt
\* and makes the session await the address; while it awaits the address, a
\* text that is not blank is stored as delivery_address and the session
\* becomes idle, and a blank text is rejected, stores nothing and leaves the
\* session awaiting the address.
C14_AddressCapture ==
    [][ \A u \in Users :
          /\ (last' = Callback(u, D_set_address) /\ Idle(u))
             => (AwaitingAddress(u)' /\ out' # <<>>)
          /\ \A body \in TextBodies :
                (last' = Text(u, body) /\ AwaitingAddress(u))
                => IF strip(body) # <<>>
                   THEN /\ user_data'[u].delivery_address = strip(body)
                        /\ Idle(u)'
                   ELSE /\ user_data'[u].delivery_address = user_data[u].delivery_address
                        /\ AwaitingAddress(u)'
                        /\ \E i \in 1..Len(out') : out'[i].kind = "address_empty" ]_vars

\* C15: a pay request of a session without a draft is answered with the
\* no-order text and leaves the session as it was; a pay request of a session
\* with a draft makes the state AWAITING_PAYMENT_CONFIRMATION and shows the
\* total stored in the draft, and the draft and the cart stay as they were.
C15_PayNeedsDraft ==
    [][ \A u \in Users :
          last' = Callback(u, D_pay_tinkoff)
          => IF Draft(u) = <<>>
             THEN /\ Session(u)' = Session(u)
                  /\ \E i \in 1..Len(out') : out'[i].kind = "no_order"
                  /\ \A i \in 1..Len(out') : out'[i].kind # "pay_details"
             ELSE /\ user_data'[u].state = AWAITING_PAYMENT_CONFIRMATION
                  /\ \E i \in 1..Len(out') : /\ out'[i].kind = "pay_details"
                                               /\ out'[i].total = Draft(u)[1].total
                  /\ Draft(u)' = Draft(u)
                  /\ CartItems(u)' = CartItems(u) ]_vars

\* the owner, with a draft totalling 50, has just asked to pay and is shown 50
W15_PaidWithDraft ==
    /\ last = Callback(1, D_pay_tinkoff)
    /\ Draft(1) # <<>>
    /\ Draft(1)[1].total = 50
    /\ user_data[1].state = AWAITING_PAYMENT_CONFIRMATION
    /\ \E i \in 1..Len(out) : out[i].kind = "pay_details" /\ out[i].total = 50

\* C16: a confirm_payment request of user u notifies the administrator only
\* when u's state is AWAITING_PAYMENT_CONFIRMATION and u has a draft; the
\* notification names u, lists the draft's items and total, carries the
\* delivery address and an approve_<u> button; and u's session stays as it was.
C16_PaidRequestNotifiesAdmin ==
    [][ \A u \in Users :
          last' = Callback(u, D_confirm_payment)
          => /\ \A i \in 1..Len(out') :
                   out'[i].kind = "new_order"
                   => /\ user_data[u].state = AWAITING_PAYMENT_CONFIRMATION
                      /\ Draft(u) # <<>>
                      /\ out'[i].to = ADMIN_ID
                      /\ out'[i].user = u
                      /\ out'[i].items = Lines(Draft(u)[1].items)
                      /\ out'[i].total = Draft(u)[1].total
                      /\ out'[i].buttons = <<P_approve \o str(u)>>
                      /\ "address" \in DOMAIN out'[i]
                      /\ out'[i].address = user_data[u].delivery_address
             /\ Session(u)' = Session(u) ]_vars

\* C17: a draft is a snapshot of the cart: add_<id>, remove_<i> and clear_cart
\* of a user who has a draft leave the draft's items as they were, and the
\* total of every draft and of every ledger entry is the sum of the prices of
\* the items recorded in it.
C17_DraftIsSnapshot ==
    [][ \A u \in Users :
          /\ ((IsAdd(last') \/ IsRemove(last') \/ IsButton(last', D_clear_cart))
              /\ last'.user = u /\ Draft(u) # <<>>)
             => /\ Draft(u)' # <<>>
                /\ (Draft(u)')[1].items = Draft(u)[1].items
          /\ Draft(u)' # <<>> => (Draft(u)')[1].total = PriceSum((Draft(u)')[1].items)
          /\ \A i \in 1..Len(orders_file') :
                orders_file'[i].total = PriceSum(orders_file'[i].cart) ]_vars

\* C18: an approve_<t> request of the administrator, when neither t nor the
\* administrator has a draft, is reported as a failure and does nothing
\* else: the ledger and every session stay as they were, and neither the
\* payment-confirmed message nor a receipt is sent.
C18_ApproveWithoutDraft ==
    [][ \A p, t \in Users :
          (last' = Callback(p, P_approve \o str(t)) /\ str(p) = ADMIN_ID
           /\ Draft(t) = <<>> /\ Draft(p) = <<>>)
          => /\ orders_file' = orders_file
             /\ \A i \in 1..Len(out') : out'[i].kind \notin {"payment_confirmed", "receipt"}
             /\ \A v \in Users : Session(v)' = Session(v)
             /\ out' # <<>> ]_vars

-----------------------------------------------------------------------------
(* C19 - C20: approval under concurrent updates, and what the customer is told *)

\* C19: with approve_payment coroutines interleaved at their awaits, no
\* append is lost: the ledger holds exactly the orders save_order was called
\* with, one entry per call, in call order.
C19_NoAppendLost == orders_file = save_calls

\* user 2's coroutine has just saved an order and sent the receipt while user
\* 1's coroutine, which has an order to save, is suspended in send_message
W19_SavedWhileOtherSuspended ==
    /\ tasks[1].pc = "send_message"
    /\ Draft(1) # <<>>
    /\ last.user = 2
    /\ IsApprove(last)
    /\ "receipt" \in SentKinds(str(2))
    /\ Len(save_calls) = 1
    /\ orders_file[1].user_id = 2

\* C20: when an approve_<t> request of the administrator tells user t that
\* the payment is confirmed, by the confirmation message or by the receipt,
\* the same request has appended to the ledger one entry with status paid and
\* user id t.
C20_ConfirmedOnlyIfSaved ==
    [][ \A p, t \in Users :
          (/\ last' = Callback(p, P_approve \o str(t))
           /\ str(p) = ADMIN_ID
           /\ \E i \in 1..Len(out') : /\ out'[i].to = str(t)
                                        /\ out'[i].kind \in {"payment_confirmed", "receipt"})
          => /\ Len(orders_file') = Len(orders_file) + 1
             /\ orders_file'[Len(orders_file')].status = "paid"
             /\ orders_file'[Len(orders_file')].user_id = t ]_vars

-----------------------------------------------------------------------------
(* C21: a draft is finalized once *)

\* the ledger entries that carry the user id u
EntriesOf(file, u) == Cardinality({i \in 1..Len(file) : file[i].user_id = u})

\* C21: the ledger never holds more entries than there were successful
\* checkouts, in all and for each user; an approve press of a user who has
\* pressed approve before and has not checked out since appends nothing;
\* and an "I paid" press appends nothing.
C21_DraftFinalizedOnce ==
    [][ /\ Len(orders_file') <= CheckoutsUpTo(audit'.checkouts, NumUsers)
        /\ \A u \in Users : EntriesOf(orders_file', u) <= audit'.checkouts[u]
        /\ \A p \in Users :
              (IsApprove(last') /\ last'.user = p /\ p \in audit.approved
               /\ audit'.checkouts = audit.checkouts)
              => orders_file' = orders_file
        /\ IsButton(last', D_confirm_payment) => orders_file' = orders_file ]_vars

\* user 1 checked out once, an approve press saved that order, and a later
\* approve press of user 1 has just found no order and saved nothing
W21_SecondApproveFoundNothing ==
    /\ IsApprove(last)
    /\ last.user = 1
    /\ audit.checkouts[1] = 1
    /\ 1 \in audit.approved
    /\ EntriesOf(orders_file, 1) = 1
    /\ Len(orders_file) = 1
    /\ "internal_error" \in SentKinds(str(1))

====
